---- MODULE Spec2Model ----
(***************************************************************************)
(* Reservoir mass balance (reservoir_mass_balance.py): the storage-area    *)
(* interpolation Reservoir.calculate_area, the weekly update               *)
(* Reservoir.mass_balance and the chain driver run_mass_balance.           *)
(*                                                                         *)
(* Python floats are modelled as exact rationals <<n, d>> in lowest terms  *)
(* with d > 0; Python's 0-based arrays as functions on 0 .. n-1.           *)
(***************************************************************************)
EXTENDS Integers, Sequences, FiniteSets

VARIABLES
    storage_area_curve,   \* [Reservoirs -> [s, a]]   self.__storage_area_curve
    capacity,             \* [Reservoirs -> rational] self.__capacity
    evaporation_series,   \* [Reservoirs -> array]    self.__evaporation_series
    inflow_series,        \* [Reservoirs -> array]    self.__inflow_series
    demand_series,        \* [Reservoirs -> array]    self.__demand_series
    stored_volume,        \* [Reservoirs -> array]    self.__stored_volume
    subject,              \* the reservoir a client calls methods on
    last,                 \* the last method call made by a client, with its outcome
    reservoirs,           \* run_mass_balance: the list argument
    n_weeks,              \* run_mass_balance: the n_weeks argument
    pc,                   \* run_mass_balance: control position
    week,                 \* run_mass_balance: loop variable of line 119
    position,             \* run_mass_balance: index of the next reservoir of line 121
    release,              \* run_mass_balance: local
    unfulfilled_demand,   \* run_mass_balance: local
    total_unfulfilled_demand, \* run_mass_balance: local
    printed,              \* run_mass_balance: what line 126 printed, or Nothing
    calls                 \* run_mass_balance: log of the mass_balance calls made

vars == <<storage_area_curve, capacity, evaporation_series, inflow_series,
          demand_series, stored_volume, subject, last, reservoirs, n_weeks, pc,
          week, position, release, unfulfilled_demand,
          total_unfulfilled_demand, printed, calls>>

objects == <<storage_area_curve, capacity, evaporation_series, inflow_series,
             demand_series>>

driver == <<reservoirs, n_weeks, pc, week, position, release,
            unfulfilled_demand, total_unfulfilled_demand, printed, calls>>

----------------------------------------------------------------------------
(* Bounds *)

\* Length of every reservoir's time series (n_weeks = len(demands)).
SeriesLen == 3

\* Number of reservoir objects constructed; the longest chain simulated.
MaxChain == 2

Reservoirs == 1 .. MaxChain

----------------------------------------------------------------------------
(* Float arithmetic, as exact rationals *)

RECURSIVE Gcd(_, _)
Gcd(x, y) == IF y = 0 THEN x ELSE Gcd(y, x % y)

Abs(x) == IF x < 0 THEN -x ELSE x

\* The rational n/d (d # 0) in lowest terms with a positive denominator.
Rat(n, d) ==
    LET g == Gcd(Abs(n), Abs(d))
        sgn == IF d < 0 THEN -1 ELSE 1
    IN  <<sgn * (n \div g), sgn * (d \div g)>>

FromInt(n) == <<n, 1>>

Zero == FromInt(0)

RNeg(x) == <<-x[1], x[2]>>

RAdd(x, y) ==
    LET g == Gcd(x[2], y[2])
    IN  Rat(x[1] * (y[2] \div g) + y[1] * (x[2] \div g), x[2] * (y[2] \div g))

RSub(x, y) == RAdd(x, RNeg(y))

RMul(x, y) ==
    LET p == Rat(x[1], y[2])
        q == Rat(y[1], x[2])
    IN  <<p[1] * q[1], p[2] * q[2]>>

\* x / y for y # 0
RDiv(x, y) == RMul(x, Rat(y[2], y[1]))

RLt(x, y) == x[1] * y[2] < y[1] * x[2]

RGt(x, y) == RLt(y, x)

RLe(x, y) == ~RLt(y, x)

----------------------------------------------------------------------------
(* Python sequences *)

\* len(arr) of an array on 0 .. n-1
PyLen(arr) == Cardinality(DOMAIN arr)

\* arr[i] raises IndexError unless -len <= i < len
IndexInRange(arr, i) == -PyLen(arr) <= i /\ i < PyLen(arr)

\* arr[i] with Python's negative indices counting from the end
PyIndex(arr, i) == IF i < 0 THEN arr[PyLen(arr) + i] ELSE arr[i]

\* arr[i] = v
PySetItem(arr, i, v) ==
    [arr EXCEPT ![IF i < 0 THEN PyLen(arr) + i ELSE i] = v]

\* np.array(list): the 0-based array of a literal list
Array(seq) == [i \in 0 .. Len(seq) - 1 |-> seq[i + 1]]

----------------------------------------------------------------------------
(* Constructor arguments *)

\* test_reservoir_mass_balance.py: storage_area_curve
TestCurve ==
    [s |-> Array(<<FromInt(0), FromInt(500), FromInt(800), FromInt(1000)>>),
     a |-> Array(<<FromInt(0), FromInt(400), FromInt(600), FromInt(900)>>)]

\* reservoir_mass_balance.py __main__: storage_area_curve
MainCurve ==
    [s |-> Array(<<FromInt(0), FromInt(1000), FromInt(3000), FromInt(4000)>>),
     a |-> Array(<<FromInt(0), FromInt(400), FromInt(600), FromInt(900)>>)]

Weeks == 0 .. SeriesLen - 1

\* The test's reservoir: evaporation 0.05, demand 200, inflows 15, 15, 400.
TestFixture ==
    [curve |-> TestCurve,
     evaporations |-> [w \in Weeks |-> Rat(1, 20)],
     inflows |-> [w \in Weeks |-> IF w % 3 = 2 THEN FromInt(400) ELSE FromInt(15)],
     demands |-> [w \in Weeks |-> FromInt(200)]]

\* A reservoir whose demand exceeds what it can hold and receive in odd
\* weeks; in even weeks a full reservoir with upstream flow -300 is left
\* with exactly 0.
DroughtFixture ==
    [curve |-> TestCurve,
     evaporations |-> [w \in Weeks |-> Rat(1, 20)],
     inflows |-> [w \in Weeks |-> FromInt(15)],
     demands |-> [w \in Weeks |-> IF w % 2 = 1 THEN FromInt(1200) ELSE FromInt(670)]]

\* A reservoir on the main program's curve that receives more than it loses
\* in odd weeks; in even weeks a full reservoir with upstream flow 100 is
\* left with exactly its capacity.
WetFixture ==
    [curve |-> MainCurve,
     evaporations |-> [w \in Weeks |-> Rat(1, 8)],
     inflows |-> [w \in Weeks |-> IF w % 2 = 1 THEN FromInt(400) ELSE Rat(75, 2)],
     demands |-> [w \in Weeks |-> FromInt(25)]]

FixtureList == <<TestFixture, DroughtFixture, WetFixture>>

Fixtures == {FixtureList[i] : i \in 1 .. Len(FixtureList)}

\* Every way of giving each reservoir a fixture.
AllAssignments == [Reservoirs -> Fixtures]

\* The fixtures given out in rotation: every reservoir gets every fixture
\* in one of the rotations, and neighbours get different ones.
Rotations ==
    {[r \in Reservoirs |-> FixtureList[((r + k) % Len(FixtureList)) + 1]] :
        k \in 1 .. Len(FixtureList)}

\* upstream_flow values a client passes to mass_balance
UpstreamFlows == {FromInt(-300), FromInt(100)}

\* week values a client passes to mass_balance
WeekArgs == -1 .. SeriesLen

\* stored_volume values a client passes to calculate_area
AreaProbes ==
    {FromInt(-10), FromInt(0), FromInt(250), FromInt(500), FromInt(650),
     Rat(1741, 2), FromInt(1000), FromInt(3500), FromInt(4000), FromInt(1000000)}

----------------------------------------------------------------------------
(* Reservoir *)

\* self.__capacity = storage_area_curve[0, -1]
CurveCapacity(curve) == PyIndex(curve.s, -1)

\* np.ones(n_weeks, dtype=float) * self.__capacity, n_weeks = len(demands)
InitialStoredVolume(curve, demands) ==
    [w \in 0 .. PyLen(demands) - 1 |-> CurveCapacity(curve)]

\* if stored_volume > self.__capacity: raise ValueError
CapacityExceeded(sv, cap) == RGt(sv, cap)

\* Mutant of Interpolate: the offset am of the lower breakpoint is dropped.
InterpolateWithoutOffset(sm, am, s, a, sv) ==
    RMul(RDiv(RSub(sv, sm), RSub(s, sm)), RSub(a, am))

\* am + (stored_volume - sm) / (s - sm) * (a - am)
Interpolate(sm, am, s, a, sv) ==
    RAdd(am, RMul(RDiv(RSub(sv, sm), RSub(s, sm)), RSub(a, am)))

\* The for loop of calculate_area from index i on; falling out of the loop
\* returns the a of the last iteration, which is unbound if there was none.
RECURSIVE AreaSearch(_, _, _)
AreaSearch(curve, sv, i) ==
    IF i >= PyLen(curve.s)
    THEN IF PyLen(curve.s) <= 1
         THEN [exc |-> "UnboundLocalError", value |-> Zero]
         ELSE [exc |-> "none", value |-> curve.a[PyLen(curve.s) - 1]]
    ELSE IF RLt(sv, curve.s[i])
         THEN [exc |-> "none",
               value |-> Interpolate(curve.s[i - 1], curve.a[i - 1],
                                     curve.s[i], curve.a[i], sv)]
         ELSE AreaSearch(curve, sv, i + 1)

\* Reservoir.calculate_area(self, stored_volume)
calculate_area(r, sv) ==
    IF CapacityExceeded(sv, capacity[r])
    THEN [exc |-> "ValueError", value |-> Zero]
    ELSE AreaSearch(storage_area_curve[r], sv, 1)

\* Mutant of WeekRejected: the guard is week < 0.
WeekRejectedBelowZero(w) == w < 0

\* if week < 1: raise ValueError
WeekRejected(w) == w < 1

\* new_stored_volume before clamping
Candidate(prev, upstream_flow, inflow, evaporation, demand) ==
    RSub(RSub(RAdd(RAdd(prev, upstream_flow), inflow), evaporation), demand)

\* Mutant of ClampStorage: the elif branch is missing, so a negative
\* candidate is stored as it is.
ClampStorageNoFloor(new_stored_volume, cap) ==
    IF RGt(new_stored_volume, cap)
    THEN [release |-> RSub(new_stored_volume, cap),
          unfulfilled_demand |-> Zero,
          new_stored_volume |-> cap]
    ELSE [release |-> Zero,
          unfulfilled_demand |-> Zero,
          new_stored_volume |-> new_stored_volume]

\* Mutant of ClampStorage: the spill releases the whole candidate.
ClampStorageReleaseAll(new_stored_volume, cap) ==
    IF RGt(new_stored_volume, cap)
    THEN [release |-> new_stored_volume,
          unfulfilled_demand |-> Zero,
          new_stored_volume |-> cap]
    ELSE IF RLt(new_stored_volume, Zero)
    THEN [release |-> Zero,
          unfulfilled_demand |-> RNeg(new_stored_volume),
          new_stored_volume |-> Zero]
    ELSE [release |-> Zero,
          unfulfilled_demand |-> Zero,
          new_stored_volume |-> new_stored_volume]

\* Mutant of ClampStorage: the unfulfilled demand keeps the candidate's sign.
ClampStorageSignSlip(new_stored_volume, cap) ==
    IF RGt(new_stored_volume, cap)
    THEN [release |-> RSub(new_stored_volume, cap),
          unfulfilled_demand |-> Zero,
          new_stored_volume |-> cap]
    ELSE IF RLt(new_stored_volume, Zero)
    THEN [release |-> Zero,
          unfulfilled_demand |-> new_stored_volume,
          new_stored_volume |-> Zero]
    ELSE [release |-> Zero,
          unfulfilled_demand |-> Zero,
          new_stored_volume |-> new_stored_volume]

\* release, unfulfilled_demand and the clamped new_stored_volume
ClampStorage(new_stored_volume, cap) ==
    IF RGt(new_stored_volume, cap)
    THEN [release |-> RSub(new_stored_volume, cap),
          unfulfilled_demand |-> Zero,
          new_stored_volume |-> cap]
    ELSE IF RLt(new_stored_volume, Zero)
    THEN [release |-> Zero,
          unfulfilled_demand |-> RNeg(new_stored_volume),
          new_stored_volume |-> Zero]
    ELSE [release |-> Zero,
          unfulfilled_demand |-> Zero,
          new_stored_volume |-> new_stored_volume]

\* Mutant of WriteStoredVolume: the slice [week:] is assigned.
WriteStoredVolumeFromWeek(arr, w, v) ==
    [i \in DOMAIN arr |-> IF i >= w THEN v ELSE arr[i]]

\* self.__stored_volume[week] = new_stored_volume
WriteStoredVolume(arr, w, v) == PySetItem(arr, w, v)

\* Reservoir.mass_balance(self, upstream_flow, week): the exception raised
\* (or "none"), the pair returned and the reservoir's stored volumes after it.
mass_balance(r, upstream_flow, w) ==
    LET failed(e) == [exc |-> e, release |-> Zero, unfulfilled_demand |-> Zero,
                      stored_volume |-> stored_volume[r]]
    IN  IF WeekRejected(w) THEN failed("ValueError")
        ELSE IF ~IndexInRange(evaporation_series[r], w) THEN failed("IndexError")
        ELSE
        LET prev == PyIndex(stored_volume[r], w - 1)
            area == calculate_area(r, prev)
        IN  IF area.exc # "none" THEN failed(area.exc)
            ELSE
            LET evaporation == RMul(PyIndex(evaporation_series[r], w), area.value)
                c == ClampStorage(
                         Candidate(prev, upstream_flow,
                                   PyIndex(inflow_series[r], w), evaporation,
                                   PyIndex(demand_series[r], w)),
                         capacity[r])
            IN  [exc |-> "none",
                 release |-> c.release,
                 unfulfilled_demand |-> c.unfulfilled_demand,
                 stored_volume |->
                     WriteStoredVolume(stored_volume[r], w, c.new_stored_volume)]

----------------------------------------------------------------------------
(* Construction *)

\* Reservoir.__init__ for every reservoir, with the constructor arguments of
\* one of the given assignments.
Construct(assignments) ==
    \E f \in assignments :
        /\ storage_area_curve = [r \in Reservoirs |-> f[r].curve]
        /\ capacity = [r \in Reservoirs |-> CurveCapacity(f[r].curve)]
        /\ evaporation_series = [r \in Reservoirs |-> f[r].evaporations]
        /\ inflow_series = [r \in Reservoirs |-> f[r].inflows]
        /\ demand_series = [r \in Reservoirs |-> f[r].demands]
        /\ stored_volume =
               [r \in Reservoirs |-> InitialStoredVolume(f[r].curve, f[r].demands)]

\* A local variable that has not been assigned.
Unbound == <<>>

\* Nothing was printed.
NotPrinted == <<>>

NoCall ==
    [op |-> "none", r |-> 0, week |-> 0, upstream_flow |-> Zero, arg |-> Zero,
     exc |-> "none", release |-> Zero, unfulfilled_demand |-> Zero,
     value |-> Zero]

DriverIdle ==
    /\ reservoirs = <<>>
    /\ n_weeks = 0
    /\ pc = "idle"
    /\ week = 0
    /\ position = 0
    /\ release = Unbound
    /\ unfulfilled_demand = Unbound
    /\ total_unfulfilled_demand = Unbound
    /\ printed = NotPrinted
    /\ calls = <<>>

----------------------------------------------------------------------------
(* A client calling the methods of one reservoir, as the test does *)

Init ==
    /\ Construct(Rotations)
    /\ subject \in Reservoirs
    /\ last = NoCall
    /\ DriverIdle

\* reservoir.calculate_area(sv)
CallCalculateArea(sv) ==
    LET res == calculate_area(subject, sv)
    IN  /\ last' = [NoCall EXCEPT !.op = "calculate_area", !.r = subject,
                                  !.arg = sv, !.exc = res.exc,
                                  !.value = res.value]
        /\ UNCHANGED <<objects, stored_volume, subject, driver>>

\* reservoir.mass_balance(upstream_flow, w)
CallMassBalance(upstream_flow, w) ==
    LET res == mass_balance(subject, upstream_flow, w)
    IN  /\ stored_volume' = [stored_volume EXCEPT ![subject] = res.stored_volume]
        /\ last' = [NoCall EXCEPT !.op = "mass_balance", !.r = subject,
                                  !.week = w, !.upstream_flow = upstream_flow,
                                  !.exc = res.exc, !.release = res.release,
                                  !.unfulfilled_demand = res.unfulfilled_demand]
        /\ UNCHANGED <<objects, subject, driver>>

Next ==
    \/ \E sv \in AreaProbes : CallCalculateArea(sv)
    \/ \E u \in UpstreamFlows, w \in WeekArgs : CallMassBalance(u, w)

Spec == Init /\ [][Next]_vars

----------------------------------------------------------------------------
(* run_mass_balance(reservoirs, n_weeks) *)

\* Mutant of WeekRange: range(1, n_weeks + 1).
WeekRangeInclusive(n) == 1 .. n

\* range(1, n_weeks)
WeekRange(n) == 1 .. n - 1

\* Mutant of NextRelease: the returned pair is unpacked in the wrong order.
NextReleaseSwapped(res) == res.unfulfilled_demand

\* release, unfulfilled_demand = reservoir.mass_balance(release, week)
NextRelease(res) == res.release

\* The chains run_mass_balance is given: the first k reservoirs, in order.
Chain(k) == [i \in 1 .. k |-> i]

InitRun ==
    /\ Construct(AllAssignments)
    /\ subject = 1
    /\ last = NoCall
    /\ \E k \in 0 .. MaxChain : reservoirs = Chain(k)
    /\ n_weeks \in 0 .. SeriesLen
    /\ pc = "for_week"
    /\ week = 0
    /\ position = 0
    /\ release = Unbound
    /\ unfulfilled_demand = Unbound
    /\ total_unfulfilled_demand = Unbound
    /\ printed = NotPrinted
    /\ calls = <<>>

\* for week in range(1, n_weeks): release, unfulfilled_demand,
\* total_unfulfilled_demand = 0, 0, 0
RunForWeek ==
    /\ pc = "for_week"
    /\ IF week + 1 \in WeekRange(n_weeks)
       THEN /\ week' = week + 1
            /\ release' = Zero
            /\ unfulfilled_demand' = Zero
            /\ total_unfulfilled_demand' = Zero
            /\ position' = 0
            /\ pc' = "for_reservoir"
       ELSE /\ pc' = "report"
            /\ UNCHANGED <<week, release, unfulfilled_demand,
                           total_unfulfilled_demand, position>>
    /\ UNCHANGED <<objects, stored_volume, subject, last, reservoirs, n_weeks,
                   printed, calls>>

\* for reservoir in reservoirs: one mass_balance call and the accumulation
RunForReservoir ==
    /\ pc = "for_reservoir"
    /\ IF position < Len(reservoirs)
       THEN LET r == reservoirs[position + 1]
                res == mass_balance(r, release, week)
            IN  IF res.exc # "none"
                THEN /\ pc' = "raised"
                     /\ UNCHANGED <<stored_volume, release, unfulfilled_demand,
                                    total_unfulfilled_demand, position, calls>>
                ELSE /\ stored_volume' =
                            [stored_volume EXCEPT ![r] = res.stored_volume]
                     /\ release' = NextRelease(res)
                     /\ unfulfilled_demand' = res.unfulfilled_demand
                     /\ total_unfulfilled_demand' =
                            RAdd(total_unfulfilled_demand, res.unfulfilled_demand)
                     /\ position' = position + 1
                     /\ calls' = Append(calls,
                            [reservoir |-> r, position |-> position + 1,
                             week |-> week,
                             upstream_flow |-> release,
                             release |-> res.release,
                             unfulfilled_demand |-> res.unfulfilled_demand])
                     /\ pc' = pc
       ELSE /\ pc' = "for_week"
            /\ UNCHANGED <<stored_volume, release, unfulfilled_demand,
                           total_unfulfilled_demand, position, calls>>
    /\ UNCHANGED <<objects, subject, last, reservoirs, n_weeks, week, printed>>

\* if unfulfilled_demand > 0: print(... unfulfilled_demand)
RunReport ==
    /\ pc = "report"
    /\ IF unfulfilled_demand = Unbound
       THEN /\ pc' = "raised"
            /\ printed' = printed
       ELSE /\ pc' = "done"
            /\ printed' = IF RGt(unfulfilled_demand, Zero)
                          THEN unfulfilled_demand
                          ELSE NotPrinted
    /\ UNCHANGED <<objects, stored_volume, subject, last, reservoirs, n_weeks,
                   week, position, release, unfulfilled_demand,
                   total_unfulfilled_demand, calls>>

NextRun == RunForWeek \/ RunForReservoir \/ RunReport

SpecRun == InitRun /\ [][NextRun]_vars

----------------------------------------------------------------------------
(* Properties of Reservoir, checked under Spec *)

IsMassBalance(c) == c.op = "mass_balance"

IsCalculateArea(c) == c.op = "calculate_area"

\* The candidate storage of the call mass_balance(u, w) on reservoir r, from
\* the state before the call.
CandidateBefore(r, u, w) ==
    LET prev == stored_volume[r][w - 1]
    IN  RSub(RSub(RAdd(RAdd(prev, u), inflow_series[r][w]),
                  RMul(evaporation_series[r][w], calculate_area(r, prev).value)),
             demand_series[r][w])

\* C1: every index of every reservoir's stored-volume sequence lies in
\* [0, capacity], after construction and after any sequence of calls.
C1_StoredVolumeInRange ==
    \A r \in Reservoirs : \A w \in DOMAIN stored_volume[r] :
        /\ RLe(Zero, stored_volume[r][w])
        /\ RLe(stored_volume[r][w], capacity[r])

\* C1 witness: a call emptied the reservoir, and an earlier one left an
\* interior value.
C1_Witness ==
    /\ IsMassBalance(last) /\ last.exc = "none"
    /\ RGt(last.unfulfilled_demand, Zero)
    /\ stored_volume[last.r][last.week] = Zero
    /\ \E w \in DOMAIN stored_volume[last.r] :
           /\ RGt(stored_volume[last.r][w], Zero)
           /\ RLt(stored_volume[last.r][w], capacity[last.r])

\* C2: a call mass_balance(u, w) with w >= 1 (and w inside the series) returns
\* (candidate - capacity, 0) and stores capacity when candidate > capacity,
\* returns (0, -candidate) and stores 0 when candidate < 0, and otherwise
\* returns (0, 0) and stores candidate.
C2_MassBalanceCases ==
    [][(IsMassBalance(last') /\ last'.week >= 1
            /\ last'.week < PyLen(demand_series[last'.r])) =>
        LET r == last'.r
            w == last'.week
            cand == CandidateBefore(r, last'.upstream_flow, w)
            stored == stored_volume'[r][w]
        IN  /\ last'.exc = "none"
            /\ IF RGt(cand, capacity[r])
               THEN /\ last'.release = RSub(cand, capacity[r])
                    /\ last'.unfulfilled_demand = Zero
                    /\ stored = capacity[r]
               ELSE IF RLt(cand, Zero)
               THEN /\ last'.release = Zero
                    /\ last'.unfulfilled_demand = RNeg(cand)
                    /\ stored = Zero
               ELSE /\ last'.release = Zero
                    /\ last'.unfulfilled_demand = Zero
                    /\ stored = cand]_vars

\* C2 witness: the test's two calls, mass_balance(100, 1) storing 870 and
\* mass_balance(100, 2) releasing 134.75 and storing 1000.
C2_Witness ==
    /\ IsMassBalance(last) /\ last.exc = "none" /\ last.week = 2
    /\ last.upstream_flow = FromInt(100)
    /\ stored_volume[last.r][1] = FromInt(870)
    /\ last.release = Rat(539, 4)
    /\ stored_volume[last.r][2] = FromInt(1000)

\* C4: calculate_area raises for every negative stored volume.
C4_NegativeStorageRaises ==
    (IsCalculateArea(last) /\ RLt(last.arg, Zero)) => last.exc # "none"

\* C5: mass_balance with week < 1 raises ValueError and leaves every stored
\* volume as it was.
C5_InvalidWeekRaises ==
    [][(IsMassBalance(last') /\ last'.week < 1) =>
        /\ last'.exc = "ValueError"
        /\ stored_volume' = stored_volume]_vars

\* C5 witness: mass_balance(_, 0) raised after an earlier call had changed
\* the stored volumes.
C5_Witness ==
    /\ IsMassBalance(last) /\ last.week = 0 /\ last.exc = "ValueError"
    /\ stored_volume[last.r][1] # capacity[last.r]
    /\ stored_volume[last.r][0] = capacity[last.r]

\* C7: for 0 <= storage <= capacity calculate_area returns the value of the
\* line through the two breakpoints that bracket storage (so a breakpoint's
\* own area at a breakpoint), the test's values on the test's curve, and a
\* value no smaller than at any smaller storage.
C7_PiecewiseLinear ==
    (IsCalculateArea(last) /\ RLe(Zero, last.arg)
        /\ RLe(last.arg, capacity[last.r])) =>
    LET curve == storage_area_curve[last.r]
        x == last.arg
        n == PyLen(curve.s)
    IN  /\ last.exc = "none"
        /\ \A i \in 0 .. n - 2 :
               (RLe(curve.s[i], x) /\ RLe(x, curve.s[i + 1])) =>
                   RMul(RSub(last.value, curve.a[i]),
                        RSub(curve.s[i + 1], curve.s[i]))
                   = RMul(RSub(x, curve.s[i]),
                          RSub(curve.a[i + 1], curve.a[i]))
        /\ \A i \in 0 .. n - 1 : x = curve.s[i] => last.value = curve.a[i]
        /\ curve = TestCurve =>
               /\ x = FromInt(500) => last.value = FromInt(400)
               /\ x = FromInt(650) => last.value = FromInt(500)
               /\ x = FromInt(1000) => last.value = FromInt(900)
        /\ \A y \in AreaProbes :
               (RLe(Zero, y) /\ RLe(y, x)) =>
                   RLe(calculate_area(last.r, y).value, last.value)

\* C7 witness: calculate_area(650) returned 500 on the test's curve.
C7_Witness ==
    /\ IsCalculateArea(last) /\ last.exc = "none"
    /\ storage_area_curve[last.r] = TestCurve
    /\ last.arg = FromInt(650)
    /\ last.value = FromInt(500)

\* C9: a successful mass_balance(u, w) on a reservoir changes nothing but
\* that reservoir's stored_volume[w].
C9_OnlyOneIndexWritten ==
    [][(IsMassBalance(last') /\ last'.exc = "none") =>
        /\ \A r \in Reservoirs : \A w \in DOMAIN stored_volume[r] :
               (r # last'.r \/ w # last'.week) =>
                   stored_volume'[r][w] = stored_volume[r][w]
        /\ \A r \in Reservoirs :
               DOMAIN stored_volume'[r] = DOMAIN stored_volume[r]
        /\ UNCHANGED objects]_vars

\* C9 witness: a successful call for week 1 wrote a new value while week 2
\* held an earlier result.
C9_Witness ==
    /\ IsMassBalance(last) /\ last.exc = "none" /\ last.week = 1
    /\ stored_volume[last.r][1] # capacity[last.r]
    /\ stored_volume[last.r][2] # capacity[last.r]
    /\ stored_volume[last.r][2] # stored_volume[last.r][1]

\* C10: a successful mass_balance conserves water: stored + release -
\* unfulfilled_demand equals the candidate; release and unfulfilled_demand
\* are both >= 0 and at most one of them is non-zero.
C10_WaterConserved ==
    [][(IsMassBalance(last') /\ last'.exc = "none") =>
        LET r == last'.r
            w == last'.week
        IN  /\ RSub(RAdd(stored_volume'[r][w], last'.release),
                    last'.unfulfilled_demand)
               = CandidateBefore(r, last'.upstream_flow, w)
            /\ RLe(Zero, last'.release)
            /\ RLe(Zero, last'.unfulfilled_demand)
            /\ last'.release = Zero \/ last'.unfulfilled_demand = Zero]_vars

\* C10 witness: a call whose candidate was exactly the capacity (nothing
\* released, the reservoir left full) after a call that spilled 362.5.
C10_Witness ==
    /\ IsMassBalance(last) /\ last.exc = "none" /\ last.week = 2
    /\ storage_area_curve[last.r] = MainCurve
    /\ last.upstream_flow = FromInt(100)
    /\ last.release = Zero
    /\ last.unfulfilled_demand = Zero
    /\ stored_volume[last.r][1] = capacity[last.r]
    /\ stored_volume[last.r][2] = capacity[last.r]

----------------------------------------------------------------------------
(* Properties of run_mass_balance, checked under SpecRun *)

Finished == pc \in {"done", "raised"}

\* The sum of the unfulfilled demands returned by the first n logged calls
\* that were made for week w.
RECURSIVE UnfulfilledInWeek(_, _)
UnfulfilledInWeek(w, n) ==
    IF n = 0 THEN Zero
    ELSE RAdd(UnfulfilledInWeek(w, n - 1),
              IF calls[n].week = w THEN calls[n].unfulfilled_demand ELSE Zero)

\* C3: in every week the first reservoir of the chain receives upstream
\* input 0, and every later reservoir receives the release the reservoir
\* before it returned in the call made just before, for the same week.
C3_ReleaseChained ==
    \A i \in 1 .. Len(calls) :
        IF calls[i].position = 1
        THEN calls[i].upstream_flow = Zero
        ELSE /\ i > 1
             /\ calls[i - 1].week = calls[i].week
             /\ calls[i - 1].position = calls[i].position - 1
             /\ calls[i].upstream_flow = calls[i - 1].release

\* C3 witness: a reservoir received a positive release from the one before
\* it, and the week after the last reservoir released water the first one
\* received 0.
C3_Witness ==
    /\ \E i \in 1 .. Len(calls) :
           calls[i].position > 1 /\ RGt(calls[i].upstream_flow, Zero)
    /\ \E i, j \in 1 .. Len(calls) :
           /\ calls[i].position = Len(reservoirs)
           /\ RGt(calls[i].release, Zero)
           /\ calls[j].week = calls[i].week + 1
           /\ calls[j].position = 1
           /\ calls[j].upstream_flow = Zero

\* C6: when run_mass_balance finishes, what it reports is the last simulated
\* week's total unfulfilled demand over all reservoirs, reported whenever
\* that total is positive.
C6_ReportsLastWeekTotal ==
    pc = "done" =>
        LET total == UnfulfilledInWeek(n_weeks - 1, Len(calls))
        IN  printed = IF RGt(total, Zero) THEN total ELSE NotPrinted

\* C8: run_mass_balance calls mass_balance once per reservoir for each week
\* 1 .. n_weeks-1, weeks in increasing order and reservoirs in chain order
\* within a week, never for another week; index 0 of every stored-volume
\* sequence keeps the capacity it was initialised to.
C8_EveryWeekOnceInOrder ==
    LET k == Len(reservoirs)
    IN  /\ \A i \in 1 .. Len(calls) :
               /\ calls[i].week = 1 + ((i - 1) \div k)
               /\ calls[i].position = 1 + ((i - 1) % k)
               /\ calls[i].reservoir = reservoirs[calls[i].position]
               /\ calls[i].week >= 1
               /\ calls[i].week <= n_weeks - 1
        /\ Finished =>
               Len(calls) = k * (IF n_weeks >= 1 THEN n_weeks - 1 ELSE 0)
        /\ \A r \in Reservoirs : stored_volume[r][0] = capacity[r]

\* C8 witness: a finished run of two weeks over a chain of two reservoirs
\* that changed the stored volumes of both.
C8_Witness ==
    /\ pc = "done"
    /\ Len(reservoirs) >= 2
    /\ Len(calls) >= 4
    /\ \A r \in {reservoirs[1], reservoirs[2]} :
           stored_volume[r][1] # capacity[r]

====
